---- MODULE Spec2Model ----
(***************************************************************************)
(* ViktorAI: the retrieval-and-quality-gated generation pipeline.          *)
(*                                                                         *)
(* Spec       the per-turn controller ViktorAI.generate_response with the  *)
(*            collaborators it drives (BrainClient, OllamaInterface, the   *)
(*            response scorer, the vector store's query).                  *)
(* SpecStore  the vector store (VectorStore on the FAISS backend and on    *)
(*            the brute-force SimpleVectorStore backend).                  *)
(* SpecPersist  the vector store built, saved to a folder and loaded back. *)
(* SpecIndex  the indexer's sectioning and chunking of one knowledge file.  *)
(* SpecEval   the rubric evaluator's parsing of the judge's text.          *)
(* SpecClassify  the rubric evaluator's classification of a question.      *)
(* SpecClassifier  the response classifier: construction, inference and   *)
(*            training.                                                    *)
(* SpecNegative  the generation of negative training examples.             *)
(* SpecSplit  split_text_into_chunks on the characters of a text.          *)
(* SpecApi    the /chat endpoint and the shared configuration object.      *)
(*                                                                         *)
(* Strings are modelled as sequences of tokens, Python lists as sequences, *)
(* None as the empty sequence or a named constant.                         *)
(***************************************************************************)
EXTENDS Integers, Sequences, FiniteSets, TLC

VARIABLES
    \* ---- ViktorAI / Config / collaborators (persist across turns)
    use_response_classifier,  \* config.use_response_classifier
    response_classifier,      \* self.response_classifier is not None
    vector_store,             \* self.vector_store: "absent" (None) or "present"
    session_id,               \* brain.session_id is set
    is_connected,             \* brain.is_connected
    llm_history,              \* llm.history (the list object's content)
    \* ---- one call of generate_response
    pc,                       \* position inside generate_response
    turns,                    \* calls of generate_response started so far
    user_input,
    brain_analysis,           \* what BrainClient.process_input returned
    depth,                    \* recursion depth of BrainClient.process_input
    processed_input,
    context,
    prompt,
    history,                  \* the local `history` of generate_response
    aliased,                  \* local `history` is the same list object as llm.history
    attempts,
    response,
    \* ---- what the turn did (reset when a turn starts)
    calls,                    \* generation backend calls, in order
    scores,                   \* scorer calls, in order
    requests,                 \* HTTP requests sent to the brain API, in order
    retrieval,                \* how _retrieve_context ended
    feedback,                 \* how _process_response_feedback ended
    forwarded,                \* the bodies of the POST /feedback requests
    outcome,                  \* "none" | "returned" | "raised"
    error,                    \* which callee raised
    returned,                 \* the value generate_response returned
    \* ---- VectorStore / SimpleVectorStore
    use_faiss,
    model_loaded,             \* self.model is not None
    documents,
    metadata,
    vectors,                  \* rows of simple_store.vectors / of the FAISS index
    added,                    \* documents given to add calls that returned
    last_add,                 \* how the last add call ended
    last_search,              \* the last search: its arguments and its result
    \* ---- the folder save_local writes and load_local reads
    saved,                    \* the files of the folder
    loaded,                   \* what the last load_local call gave
    \* ---- indexer.process_character_data on one knowledge file
    md_lines,                 \* text.split('\n') of the file
    source,                   \* which knowledge file it is
    sections,                 \* what extract_sections_from_markdown returned
    emitted,                  \* the documents appended, section by section
    indexed,                  \* the file was processed
    \* ---- Evaluator.evaluate_response
    judge_text,               \* the text the judge returned
    judge_fails,              \* llm_interface.generate raises
    metrics,                  \* the dictionary returned
    eval_outcome,             \* "none" | "returned" | "raised"
    \* ---- Evaluator.get_question_type
    question,
    headings_map,
    question_type,            \* what the call returned, "none" before it
    \* ---- ResponseClassifier
    checkpoint,               \* what __init__ found at models/response_classifier.pt
    clf_built,                \* the classifier was constructed
    clf_weights,              \* the parameters of classifier.model
    clf_training,             \* classifier.model.training
    clf_ops,                  \* the evaluate_response and train_model calls made
    \* ---- generate_classifier_data.generate_negative_examples
    training_data,
    count,
    negative_examples,        \* the list returned
    neg_called,               \* the call was made
    \* ---- indexer.split_text_into_chunks, called on its own
    split_text,               \* the text, character by character
    split_size,               \* chunk_size
    split_overlap,            \* overlap
    split_chunks,             \* the list returned
    split_done,               \* the call was made
    \* ---- api.py: the shared Config object and the /chat endpoint
    config_temperature,       \* config.temperature, in tenths
    config_max_tokens,        \* config.max_tokens
    use_brain,                \* config.use_brain
    chat_before,              \* the three settings when the last /chat request came in
    chat_status,              \* the status of the last /chat answer, 0 before any
    chat_count                \* /chat requests answered

ctlVars == <<use_response_classifier, response_classifier, vector_store,
             session_id, is_connected, llm_history, pc, turns, user_input,
             brain_analysis, depth, processed_input, context, prompt, history,
             aliased, attempts, response, calls, scores, requests, retrieval,
             feedback, forwarded, outcome, error, returned>>

storeVars == <<use_faiss, model_loaded, documents, metadata, vectors, added,
               last_add, last_search>>

persistVars == <<saved, loaded>>

\* the variables neither the controller nor the store's add and search touch
indexVars == <<md_lines, source, sections, emitted, indexed>>

evalVars == <<judge_text, judge_fails, metrics, eval_outcome>>

classifyVars == <<question, headings_map, question_type>>

classifierVars == <<checkpoint, clf_built, clf_weights, clf_training, clf_ops>>

negativeVars == <<training_data, count, negative_examples, neg_called>>

splitVars == <<split_text, split_size, split_overlap, split_chunks, split_done>>

apiVars == <<config_temperature, config_max_tokens, use_brain, chat_before,
             chat_status, chat_count>>

lateVars == <<classifierVars, negativeVars, splitVars, apiVars>>

auxVars == <<persistVars, indexVars, evalVars, classifyVars, lateVars>>

vars == <<ctlVars, storeVars, auxVars>>

----------------------------------------------------------------------------
\* Bounds of the model

\* generate_response calls per behaviour
MaxTurns == 2

\* stand-in for the interpreter's recursion limit in BrainClient.process_input
MaxDepth == 1

\* documents a store holds at most
MaxDocs == 3

\* texts given to one add call at most
MaxBatch == 2

\* the largest k a search is given
MaxK == 4

\* lines of a knowledge file at most
MaxLines == 4

\* tokens of a judge text at most
MaxTokens == 4

MaxOps == 3

MaxExamples == 5

MaxChars == 6

MaxRequests == 2

----------------------------------------------------------------------------
\* Program constants

\* max_attempts = 3
max_attempts == 3

\* config.min_response_score = 0.6, in tenths
min_response_score == 6

\* `if len(section_content) > 1000`
chunk_threshold == 1000

\* split_text_into_chunks(section_content, chunk_size=500, overlap=100)
chunk_size == 500

overlap == 100

----------------------------------------------------------------------------
\* Values

NoResponse == <<>>

\* the message of the n-th turn: the controller never looks into it, so one
\* message per turn, each different from the others
UserInput(n) == <<"input", ToString(n)>>

\* the reply of the generation backend to the k-th call of the n-th turn: the
\* controller never looks into it, so every call's reply differs from every
\* other
Reply(n, k) == <<"reply", ToString(n), ToString(k)>>

\* overall_score values of the scorer, in tenths: below the threshold, at it
ScoreValues == {min_response_score - 1, min_response_score}

\* the result lists the store's query may return (line 253 asks for 3 at most)
QueryResults == {<<>>, <<"doc1", "doc2">>}

Msg(role, content) == [role |-> role, content |-> content]

----------------------------------------------------------------------------
\* ViktorAI: pure helpers of generate_response

\* _process_through_brain, lines 120-141: the input with the brain-state block
\* appended when an analysis came back and could be formatted
\*   "none"     None or {}: falsy, the input is passed on unchanged
\*   "partial"  a numeric key is missing: 'N/A' under :.2f raises ValueError,
\*              caught at line 139, the input is passed on unchanged
\*   "full", "default"  every key present: the block is appended
format_brain_input(input, analysis) ==
    IF analysis \in {"full", "default"}
    THEN input \o <<"BrainStateAnalysis", analysis>>
    ELSE input

RECURSIVE context_parts(_)
\* _retrieve_context, lines 259-265: one "--- Relevant information ---" part per
\* result, joined
context_parts(results) ==
    IF results = <<>> THEN <<>>
    ELSE <<"RelevantInformation", Head(results)>> \o context_parts(Tail(results))

\* what vector_store.query may do: raise, or return a list of results
QueryAnswers ==
    {[raised |-> TRUE, results |-> <<>>]}
        \cup {[raised |-> FALSE, results |-> r] : r \in QueryResults}

\* _retrieve_context, lines 248-270
retrieve_context(store, answer) ==
    IF store = "absent" THEN <<>>
    ELSE IF answer.raised THEN <<>>
    ELSE IF answer.results = <<>> THEN <<>>
    ELSE context_parts(answer.results)

\* how _retrieve_context ended (observation only)
retrieval_kind(store, answer) ==
    IF store = "absent" THEN "absent"
    ELSE IF answer.raised THEN "raised"
    ELSE IF answer.results = <<>> THEN "empty"
    ELSE "results"

prepare_rag_prompt_always_template(input, ctx) ==
    <<"IllProvide">> \o ctx \o <<"NowRespond">> \o input

\* _prepare_rag_prompt, lines 283-297
prepare_rag_prompt(input, ctx) ==
    IF ctx = <<>> THEN input
    ELSE <<"IllProvide">> \o ctx \o <<"NowRespond">> \o input

get_history_copies == FALSE

\* OllamaInterface.get_history, lines 125-131: `return self.history` hands out
\* the list object itself, so the caller's `history` is an alias of it
get_history_aliases == TRUE

\* generate_response, line 190: `if history:`
UseChat(h) == h # <<>>

GatingDisabled_config_only == ~use_response_classifier

\* generate_response, line 205
GatingDisabled == ~response_classifier \/ ~use_response_classifier

Accepts_strict(score) == score > min_response_score

\* generate_response, line 214
Accepts(score) == score >= min_response_score

NextResponse_keep_first(old, reply) == IF old = NoResponse THEN reply ELSE old

\* generate_response, lines 195 and 200: `response = ...` overwrites the
\* response of the attempt before
NextResponse(old, reply) == reply

\* where the loop goes after a rejected response, lines 220-231 and the loop
\* test of line 188
AfterReject(att) ==
    IF att >= max_attempts THEN "feedback"
    ELSE IF att < max_attempts THEN "generate"
    ELSE "feedback"

GenerationError_swallowed == [pc |-> "feedback", outcome |-> "none", error |-> "none"]

\* OllamaInterface.generate lines 71-72 (and 122-123) re-raise, and nothing in
\* generate_response catches: the call ends
GenerationError == [pc |-> "idle", outcome |-> "raised", error |-> "generation"]

\* ResponseClassifier.evaluate_response (lines 53-77) catches nothing and
\* generate_response line 209 is under no try: the call ends
ScorerError == [pc |-> "idle", outcome |-> "raised", error |-> "scorer"]

FeedbackError_propagates(answer) ==
    IF answer = "exception"
    THEN [outcome |-> "raised", error |-> "feedback"]
    ELSE [outcome |-> "returned", error |-> "none"]

\* BrainClient.process_feedback lines 186-188 and _process_response_feedback
\* lines 159-160 catch every Exception: whatever the request did,
\* generate_response goes on to `return response`
FeedbackError(answer) == [outcome |-> "returned", error |-> "none"]

----------------------------------------------------------------------------
\* VectorStore and SimpleVectorStore

\* the texts added
Texts == {"ta", "tb"}

\* the texts searched for
Queries == {"ta", "tc"}

\* self.model.encode (vector_store.py lines 183 and 214), an external
\* embedding model: a fixed table here, with two orthogonal unit vectors and one
\* vector of norm sqrt(2) that scores the same against both
encode(text) ==
    CASE text = "ta" -> <<1, 0>>
      [] text = "tb" -> <<0, 1>>
      [] OTHER -> <<1, 1>>

\* np.dot of two rows
dot(u, v) == u[1] * v[1] + u[2] * v[2]

\* the metadata values: {} (the default) and one non-empty dictionary
EmptyMeta == "empty"

Metas == {"meta"}

\* sequences over S of length 0..n
SeqsUpTo(S, n) == UNION {[1..m -> S] : m \in 0..n}

\* `[{} for _ in range(len(texts))]`, lines 45 and 186
default_metadata(n) == [i \in 1..n |-> EmptyMeta]

\* the metadatas argument: None, or a list
NoMetadata == [given |-> FALSE, list |-> <<>>]

MetadataArgs ==
    {NoMetadata} \cup {[given |-> TRUE, list |-> l] : l \in SeqsUpTo(Metas, MaxBatch)}

\* SimpleVectorStore.add_documents, lines 41-48: the checks made before anything
\* is stored
add_documents_rejects(docs, embeddings, metas) ==
    \/ Len(docs) # Len(embeddings)
    \/ Len(metas) # Len(docs)

\* SimpleVectorStore.add_documents, lines 33-53
add_documents(docs, embeddings, meta_arg) ==
    LET metas == IF meta_arg.given THEN meta_arg.list
                 ELSE default_metadata(Len(docs))
    IN IF add_documents_rejects(docs, embeddings, metas)
       THEN /\ last_add' = "raised"
            /\ UNCHANGED <<documents, metadata, vectors, added>>
       ELSE /\ vectors' = vectors \o embeddings
            /\ documents' = documents \o docs
            /\ metadata' = metadata \o metas
            /\ added' = added + Len(docs)
            /\ last_add' = "returned"

\* VectorStore.add_texts, lines 189-194, the FAISS backend: the rows go to the
\* index, the texts and the metadatas to the two lists, with no check of the
\* metadatas' length
add_texts_faiss(texts, embeddings, meta_arg) ==
    LET metas == IF meta_arg.given THEN meta_arg.list
                 ELSE default_metadata(Len(texts))
    IN /\ vectors' = vectors \o embeddings
       /\ documents' = documents \o texts
       /\ metadata' = metadata \o metas
       /\ added' = added + Len(texts)
       /\ last_add' = "returned"

\* the store is filled by the indexer (indexer.py line 232) and saved, and
\* only searched once it serves: no add follows a search. A search leaves the
\* store as it is, so a behaviour makes one search and every result a later
\* search could give is the result of a first search
Indexing == ~last_search.done

\* VectorStore.add_texts, lines 168-197
add_texts ==
    \E texts \in SeqsUpTo(Texts, MaxBatch), meta_arg \in MetadataArgs,
       encodes \in BOOLEAN :
       /\ Indexing
       /\ Len(documents) + Len(texts) <= MaxDocs
       /\ Len(metadata) + Len(meta_arg.list) <= MaxDocs
       /\ IF ~model_loaded
          THEN \* line 178: returns [] and stores nothing
               /\ last_add' = "no_model"
               /\ UNCHANGED <<documents, metadata, vectors, added>>
          ELSE IF ~encodes
          THEN \* the embedding model raises at line 183
               /\ last_add' = "raised"
               /\ UNCHANGED <<documents, metadata, vectors, added>>
          ELSE LET embeddings == [i \in 1..Len(texts) |-> encode(texts[i])]
               IN IF use_faiss
                  THEN add_texts_faiss(texts, embeddings, meta_arg)
                  ELSE add_documents(texts, embeddings, meta_arg)
       /\ UNCHANGED <<use_faiss, model_loaded, last_search>>

\* SimpleVectorStore.add_documents called on the brute-force store itself, with
\* a matrix of n rows: the embeddings of the documents, cut or padded to n
add_documents_direct ==
    \E docs \in SeqsUpTo(Texts, MaxBatch), n \in 0..MaxBatch,
       meta_arg \in MetadataArgs :
       /\ ~use_faiss
       /\ Indexing
       /\ Len(documents) + Len(docs) <= MaxDocs
       /\ add_documents(docs,
                        [i \in 1..n |-> IF i <= Len(docs) THEN encode(docs[i])
                                        ELSE encode("ta")],
                        meta_arg)
       /\ UNCHANGED <<use_faiss, model_loaded, last_search>>

\* a score: the inner product with the query as encoded, over the square of the
\* norm the query was divided by (1 when it was not divided); lowest marks the
\* score of a label the index had no row for
Score(d, n2) == [dot |-> d, norm2 |-> n2, lowest |-> FALSE]

LowestScore == [dot |-> 0, norm2 |-> 1, lowest |-> TRUE]

\* SimpleVectorStore.search, lines 68-74: the query is divided by its norm when
\* the norm is positive, the stored rows are used as they are
simple_scores(q) ==
    LET n2 == IF dot(q, q) > 0 THEN dot(q, q) ELSE 1
    IN [i \in 1..Len(vectors) |-> Score(dot(vectors[i], q), n2)]

\* faiss.IndexFlatIP: the inner product of each row with the query as given
faiss_scores(q) ==
    [i \in 1..Len(vectors) |-> Score(dot(vectors[i], q), 1)]

RECURSIVE DescOrders(_, _)
\* the orders of the positions S that are descending in score; equal scores
\* come in an order the sort does not promise (np.argsort's default kind is not
\* stable, the index's heap gives no order among equals)
DescOrders(S, sc) ==
    IF S = {} THEN {<<>>}
    ELSE UNION {{<<i>> \o rest : rest \in DescOrders(S \ {i}, sc)} :
                   i \in {b \in S : \A j \in S : sc[b].dot >= sc[j].dot}}

\* the sets of m positions none of which scores below a position left out
TopSets(m, sc) ==
    {S \in SUBSET DOMAIN sc :
        /\ Cardinality(S) = m
        /\ \A i \in S, j \in DOMAIN sc \ S : sc[i].dot >= sc[j].dot}

\* how many positions `[-top_k:]` keeps of an array of n: all of it for
\* top_k = 0, since -0 is 0
tail_slice_length(n, k) == IF k = 0 THEN n ELSE IF k < n THEN k ELSE n

\* SimpleVectorStore.search, lines 76-81: the positions selected, in order
simple_top_indices(sc, k) ==
    IF Len(sc) <= k
    THEN DescOrders(DOMAIN sc, sc)
    ELSE UNION {DescOrders(S, sc) : S \in TopSets(tail_slice_length(Len(sc), k), sc)}

\* SimpleVectorStore.search, lines 55-93: the result lists it may return
simple_search(q, k) ==
    IF Len(documents) = 0 THEN {<<>>}
    ELSE LET sc == simple_scores(q)
         IN {[i \in DOMAIN f |-> [pos |-> f[i], doc |-> documents[f[i]],
                                  score |-> sc[f[i]]]] :
                f \in simple_top_indices(sc, k)}

\* index.search(query, k) of the FAISS index: k labels, the best rows in
\* descending order, then -1 (here 0) with the lowest score for what is missing
faiss_index_search(q, k) ==
    LET sc == faiss_scores(q)
        m == IF k < Len(sc) THEN k ELSE Len(sc)
    IN {[i \in 1..k |-> IF i <= m
                        THEN [label |-> f[i], score |-> sc[f[i]]]
                        ELSE [label |-> 0, score |-> LowestScore]] :
           f \in UNION {DescOrders(S, sc) : S \in TopSets(m, sc)}}

\* similarity_search_with_score, line 224 and 225 on one label: Python's idx is
\* label - 1; -1 passes `idx < len(self.documents)` and documents[-1] is the last
\* document, or IndexError on an empty list
faiss_lookup_raises(hits) ==
    \E i \in DOMAIN hits : hits[i].label = 0 /\ Len(documents) = 0

RECURSIVE faiss_collect(_)
\* similarity_search_with_score, lines 222-226
faiss_collect(hits) ==
    IF hits = <<>> THEN <<>>
    ELSE LET h == Head(hits)
         IN (IF h.label = 0
             THEN <<[pos |-> Len(documents), doc |-> documents[Len(documents)],
                     score |-> h.score]>>
             ELSE IF h.label <= Len(documents)
             THEN <<[pos |-> h.label, doc |-> documents[h.label],
                     score |-> h.score]>>
             ELSE <<>>)
            \o faiss_collect(Tail(hits))

\* no search made yet
NoSearch ==
    [done |-> FALSE, query |-> "", k |-> 0, size |-> 0, raised |-> FALSE,
     results |-> <<>>]

Searched(q, k, raised, results) ==
    [done |-> TRUE, query |-> q, k |-> k, size |-> Len(documents),
     raised |-> raised, results |-> results]

\* similarity_search_with_score on the FAISS backend, lines 217-226: the ways
\* the call may end for the encoded query q. index.search asserts k > 0 in some
\* releases of the library and returns no label in others
faiss_search(q, k) ==
    IF k = 0
    THEN {[raised |-> asserts, results |-> <<>>] : asserts \in BOOLEAN}
    ELSE {IF faiss_lookup_raises(hits)
          THEN [raised |-> TRUE, results |-> <<>>]
          ELSE [raised |-> FALSE, results |-> faiss_collect(hits)] :
             hits \in faiss_index_search(q, k)}

\* similarity_search_with_score on the brute-force backend, lines 227-229
simple_store_search(q, k) ==
    {[raised |-> FALSE, results |-> results] : results \in simple_search(q, k)}

\* VectorStore.similarity_search_with_score, lines 199-229 (VectorStore.query,
\* lines 331-345, is this call)
similarity_search_with_score ==
    \E q \in Queries, k \in 0..MaxK :
       /\ Indexing
       /\ IF ~model_loaded
          THEN last_search' = Searched(q, k, FALSE, <<>>)
          ELSE \E end \in (IF use_faiss THEN faiss_search(encode(q), k)
                           ELSE simple_store_search(encode(q), k)) :
                   last_search' = Searched(q, k, end.raised, end.results)
       /\ UNCHANGED <<use_faiss, model_loaded, documents, metadata, vectors,
                      added, last_add>>

\* the stand-in for the embedding model's dimension (384 for all-MiniLM-L6-v2):
\* the length of the rows encode gives
embedding_dimension == 2

\* ndarray.shape of the stored matrix: np.zeros((0, embedding_dimension)) at line
\* 29, grown by np.vstack at line 51; the FAISS index has ntotal rows of d
vectors_shape == <<Len(vectors), embedding_dimension>>

\* np.array(rows, dtype=np.float32), line 125: the shape is taken from the nested
\* list, and the empty list gives a one-dimensional array of length 0
np_array(rows) ==
    [rows |-> rows,
     shape |-> IF rows = <<>> THEN <<0>> ELSE <<Len(rows), Len(rows[1])>>]

\* a file that does not exist
NoFile ==
    [present |-> FALSE, embedding_dimension |-> 0, vectors |-> <<>>,
     documents |-> <<>>, metadata |-> <<>>]

\* an empty folder
NoFiles == [faiss |-> NoFile, simple |-> NoFile, tampered |-> FALSE]

\* SimpleVectorStore.save, lines 95-109: the JSON document, the matrix as the
\* nested list vectors.tolist()
simple_store_json ==
    [present |-> TRUE, embedding_dimension |-> embedding_dimension,
     vectors |-> vectors, documents |-> documents, metadata |-> metadata]

\* save_local, lines 275-287: faiss_index.bin, documents.pkl and metadata.pkl
faiss_files ==
    [present |-> TRUE, embedding_dimension |-> embedding_dimension,
     vectors |-> vectors, documents |-> documents, metadata |-> metadata]

\* VectorStore.save_local, lines 267-289: what the folder holds after the store
\* was saved to it; the files of the other backend are left as they are
save_local_writes(folder) ==
    IF use_faiss
    THEN [folder EXCEPT !.faiss = faiss_files, !.tampered = FALSE]
    ELSE [folder EXCEPT !.simple = simple_store_json, !.tampered = FALSE]

\* no load made yet
NotLoaded ==
    [status |-> "none", use_faiss |-> FALSE, embedding_dimension |-> 0,
     documents |-> <<>>, metadata |-> <<>>, vectors |-> <<>>, shape |-> <<>>,
     source |-> NoFiles]

\* SimpleVectorStore.load, lines 111-129: nothing of the document is verified
simple_store_load(file, folder) ==
    [status |-> "returned", use_faiss |-> FALSE,
     embedding_dimension |-> file.embedding_dimension,
     documents |-> file.documents, metadata |-> file.metadata,
     vectors |-> np_array(file.vectors).rows,
     shape |-> np_array(file.vectors).shape, source |-> folder]

\* load_local, lines 304-320: the index and the two lists are read as they are
faiss_files_load(file, folder) ==
    [status |-> "returned", use_faiss |-> TRUE,
     embedding_dimension |-> embedding_dimension,
     documents |-> file.documents, metadata |-> file.metadata,
     vectors |-> file.vectors,
     shape |-> <<Len(file.vectors), file.embedding_dimension>>,
     source |-> folder]

\* VectorStore.load_local, lines 291-329, where `import faiss` succeeds or not
load_local_result(folder, faiss_importable) ==
    IF folder.faiss.present /\ faiss_importable
    THEN faiss_files_load(folder.faiss, folder)
    ELSE IF folder.simple.present
    THEN simple_store_load(folder.simple, folder)
    ELSE [NotLoaded EXCEPT !.status = "raised", !.source = folder]

\* the store is built, then saved (indexer.py lines 232-235)
Building == saved = NoFiles

\* VectorStore.save_local
save_local ==
    /\ Building
    /\ saved' = save_local_writes(saved)
    /\ UNCHANGED <<storeVars, loaded>>

\* the folder between the save and the load: one of the persisted lists loses
\* its last entry (a file cut short, or edited by hand)
FileLists == {"documents", "metadata", "vectors"}

cut_last(file, list) ==
    CASE list = "documents" ->
             [file EXCEPT !.documents = SubSeq(file.documents, 1, Len(file.documents) - 1)]
      [] list = "metadata" ->
             [file EXCEPT !.metadata = SubSeq(file.metadata, 1, Len(file.metadata) - 1)]
      [] OTHER ->
             [file EXCEPT !.vectors = SubSeq(file.vectors, 1, Len(file.vectors) - 1)]

list_length(file, list) ==
    CASE list = "documents" -> Len(file.documents)
      [] list = "metadata" -> Len(file.metadata)
      [] OTHER -> Len(file.vectors)

corrupt_files ==
    \E list \in FileLists :
       /\ ~saved.tampered
       /\ loaded.status = "none"
       /\ IF saved.faiss.present
          THEN /\ list_length(saved.faiss, list) > 0
               /\ saved' = [saved EXCEPT !.faiss = cut_last(saved.faiss, list),
                                         !.tampered = TRUE]
          ELSE /\ saved.simple.present
               /\ list_length(saved.simple, list) > 0
               /\ saved' = [saved EXCEPT !.simple = cut_last(saved.simple, list),
                                         !.tampered = TRUE]
       /\ UNCHANGED <<storeVars, loaded>>

\* VectorStore.load_local, called once when the program starts (viktor_ai.py
\* line 74)
load_local ==
    \E faiss_importable \in BOOLEAN :
       /\ loaded.status = "none"
       /\ loaded' = load_local_result(saved, faiss_importable)
       /\ UNCHANGED <<storeVars, saved>>

----------------------------------------------------------------------------
\* indexer.py: extract_sections_from_markdown, split_text_into_chunks and
\* process_character_data

\* a line of a knowledge file: a heading line (`# ` or `## ` and a title) or any
\* other line, of len characters; the empty line is the other line of length 0
Line(kind, len) == [kind |-> kind, len |-> len]

Lines ==
    {Line("h1", 3), Line("h2", 4), Line("text", 0), Line("text", 400),
     Line("text", 1100)}

\* `line.startswith('# ') or line.startswith('## ')`, line 72
is_heading(line) == line.kind \in {"h1", "h2"}

\* current_section = "", line 68
NoSection == Line("none", 0)

RECURSIVE extract_scan(_, _, _, _)
\* extract_sections_from_markdown, lines 71-84: the loop over the lines from
\* the state (current_section, current_content, sections), and the last section.
\* `current_section and current_content` holds for a heading and a list of at
\* least one line, whatever the lines are
extract_scan(lines, current_section, current_content, found) ==
    LET closed == IF current_section # NoSection /\ current_content # <<>>
                  THEN Append(found, [title |-> current_section,
                                      content |-> current_content])
                  ELSE found
    IN IF lines = <<>> THEN closed
       ELSE IF is_heading(Head(lines))
       THEN extract_scan(Tail(lines), Head(lines), <<>>, closed)
       ELSE extract_scan(Tail(lines), current_section,
                         Append(current_content, Head(lines)), found)

\* extract_sections_from_markdown, lines 56-86
extract_sections_from_markdown(lines) ==
    extract_scan(lines, NoSection, <<>>, <<>>)

RECURSIVE sum_len(_)
sum_len(lines) ==
    IF lines = <<>> THEN 0 ELSE Head(lines).len + sum_len(Tail(lines))

\* len('\n'.join(current_content)), for a list of at least one line
joined_length(lines) == sum_len(lines) + Len(lines) - 1

\* '\n'.join(current_content) as runs of characters that are no newline (their
\* length) and newlines (-1)
RECURSIVE joined(_)
joined(lines) ==
    IF lines = <<>> THEN <<>>
    ELSE LET run == IF Head(lines).len > 0 THEN <<Head(lines).len>> ELSE <<>>
         IN IF Len(lines) = 1 THEN run
            ELSE run \o <<-1>> \o joined(Tail(lines))

RECURSIVE split_paragraphs(_, _)
\* text.split('\n\n'), line 32, on the runs: the lengths of the pieces, cut at
\* each pair of newlines from the left
split_paragraphs(runs, current) ==
    IF runs = <<>> THEN <<current>>
    ELSE IF Head(runs) = -1 /\ Len(runs) >= 2 /\ runs[2] = -1
    THEN <<current>> \o split_paragraphs(Tail(Tail(runs)), 0)
    ELSE IF Head(runs) = -1
    THEN split_paragraphs(Tail(runs), current + 1)
    ELSE split_paragraphs(Tail(runs), current + Head(runs))

RECURSIVE chunk_scan(_, _, _)
\* split_text_into_chunks, lines 37-52, on the lengths of the paragraphs: the
\* lengths of the chunks before strip()
chunk_scan(paragraphs, current_chunk, chunks) ==
    IF paragraphs = <<>>
    THEN IF current_chunk > 0 THEN Append(chunks, current_chunk) ELSE chunks
    ELSE LET paragraph == Head(paragraphs)
             full == current_chunk + paragraph > chunk_size /\ current_chunk > 0
             kept == IF ~full THEN current_chunk
                     ELSE IF overlap > 0
                     THEN (IF current_chunk < overlap THEN current_chunk ELSE overlap)
                     ELSE 0
             grown == IF kept > 0 THEN kept + 2 + paragraph ELSE paragraph
         IN chunk_scan(Tail(paragraphs), grown,
                       IF full THEN Append(chunks, current_chunk) ELSE chunks)

\* split_text_into_chunks, lines 17-54, of a section's content
split_text_into_chunks(content) ==
    IF joined_length(content) = 0 THEN <<>>
    ELSE chunk_scan(split_paragraphs(joined(content), 0), 0, <<>>)

\* the knowledge files; only the character analysis is chunked (lines 182-208)
Sources ==
    {"core_profile", "technical_knowledge", "relationships", "world_context",
     "response_guidelines", "character_analysis"}

\* a document's metadata tags; 0 for a tag that is not set
Doc(part, total_parts) == [part |-> part, total_parts |-> total_parts]

\* process_character_data: the documents appended for one section, lines
\* 104-112 (and the like) and 184-206
section_documents(src, section) ==
    IF src = "character_analysis" /\ joined_length(section.content) > chunk_threshold
    THEN LET chunks == split_text_into_chunks(section.content)
         IN [i \in 1..Len(chunks) |-> Doc(i, Len(chunks))]
    ELSE <<Doc(0, 0)>>

\* process_character_data on one file, lines 99-208
process_character_data ==
    /\ ~indexed
    /\ sections' = extract_sections_from_markdown(md_lines)
    /\ emitted' = [i \in 1..Len(sections') |-> section_documents(source, sections'[i])]
    /\ indexed' = TRUE
    /\ UNCHANGED <<md_lines, source>>

\* the indexer, as the other specifications leave it
IndexIdle ==
    /\ md_lines = <<>>
    /\ source = "core_profile"
    /\ sections = <<>>
    /\ emitted = <<>>
    /\ indexed = FALSE

----------------------------------------------------------------------------
\* evaluator.py: Evaluator.evaluate_response, the parsing of the judge's text

\* the judge's text as tokens separated by blanks: the three score labels with
\* their colon (OS, PS, CS), the three reasoning labels (OR, PR, CR), the
\* numbers 7 and 15, a word, the markup `**`, and a line break (nl)
Tokens == {"OS", "PS", "CS", "OR", "PR", "CR", "n7", "n15", "w", "b", "nl"}

ScoreFields == {"overall", "primary_dimension", "character_consistency"}

\* the labels of the patterns at lines 323, 341 and 359
score_label(field) ==
    CASE field = "overall" -> "OS"
      [] field = "primary_dimension" -> "PS"
      [] OTHER -> "CS"

\* the labels of the patterns at lines 334, 352 and 370
reasoning_label(field) ==
    CASE field = "overall" -> "OR"
      [] field = "primary_dimension" -> "PR"
      [] OTHER -> "CR"

\* the label in the lookahead of the reasoning patterns: the next score label,
\* none ("") for the last field
stop_label(field) ==
    CASE field = "overall" -> "PS"
      [] field = "primary_dimension" -> "CS"
      [] OTHER -> ""

\* `\d+(?:\.\d+)?`
is_number(token) == token \in {"n7", "n15"}

\* float(match.group(1)), in tenths
number_value(token) == IF token = "n7" THEN 70 ELSE 150

\* the tokens that begin with a letter (`\n[A-Z]` under re.IGNORECASE)
begins_with_letter(token) == token \in {"OS", "PS", "CS", "OR", "PR", "CR", "w"}

\* metrics[...] = 5.0, in tenths
default_score == 50

RECURSIVE skip_space(_, _)
\* `\s*`: the first position from i on that holds no line break
skip_space(text, i) ==
    IF i <= Len(text) /\ text[i] = "nl" THEN skip_space(text, i + 1) ELSE i

RECURSIVE search_score(_, _, _)
\* re.search of a score pattern from position i: the number token of the
\* leftmost place where the label is followed by a number, "" when there is none
search_score(text, i, label) ==
    IF i > Len(text) THEN ""
    ELSE LET j == skip_space(text, i + 1)
         IN IF text[i] = label /\ j <= Len(text) /\ is_number(text[j])
            THEN text[j]
            ELSE search_score(text, i + 1, label)

\* a parse that gives up every score as soon as one of them is missing
parse_score_all_or_nothing(text, field) ==
    IF \A f \in ScoreFields : search_score(text, 1, score_label(f)) # ""
    THEN number_value(search_score(text, 1, score_label(field)))
    ELSE default_score

\* lines 323-331, 341-350, 359-368: one score field
parse_score(text, field) ==
    LET match == search_score(text, 1, score_label(field))
    IN IF match # "" THEN number_value(match) ELSE default_score

\* lines 398-405: the score brought into 0..10
clamp_score(value) ==
    IF value < 0 THEN 0 ELSE IF value > 100 THEN 100 ELSE value

RECURSIVE search_label(_, _, _)
\* the leftmost position of a label from i on, 0 when there is none
search_label(text, i, label) ==
    IF i > Len(text) THEN 0
    ELSE IF text[i] = label THEN i
    ELSE search_label(text, i + 1, label)

RECURSIVE capture(_, _, _)
\* `(.*?)(?=\n\n|\n[A-Z]|<next score label>|$)` from position i: the tokens up to
\* the first place where the lookahead holds
capture(text, i, stop) ==
    IF i > Len(text) THEN <<>>
    ELSE IF text[i] = stop THEN <<>>
    ELSE IF text[i] = "nl"
            /\ (i = Len(text) \/ text[i + 1] = "nl" \/ begins_with_letter(text[i + 1]))
    THEN <<>>
    ELSE <<text[i]>> \o capture(text, i + 1, stop)

RECURSIVE strip(_)
\* str.strip() on the tokens: the line breaks at both ends go
strip(tokens) ==
    IF tokens = <<>> THEN <<>>
    ELSE IF Head(tokens) = "nl" THEN strip(Tail(tokens))
    ELSE IF tokens[Len(tokens)] = "nl" THEN strip(SubSeq(tokens, 1, Len(tokens) - 1))
    ELSE tokens

\* lines 386-395: the `**` markers are removed, then strip()
clean_reasoning(tokens) ==
    strip(SelectSeq(strip(tokens), LAMBDA t : t # "b"))

\* the placeholder of lines 339, 357 and 375
Placeholder == <<"placeholder">>

\* the reasoning strings of the fallback dictionary, lines 411-418
Fallback == <<"fallback">>

\* lines 334-339, 352-357, 370-375: one reasoning field, a match of the pattern
\* being kept whatever it captured
parse_reasoning(text, field) ==
    LET at == search_label(text, 1, reasoning_label(field))
    IN IF at # 0
       THEN clean_reasoning(capture(text, skip_space(text, at + 1), stop_label(field)))
       ELSE Placeholder

\* lines 319-407: the dictionary parsed from the judge's text
parse_metrics(text) ==
    [score |-> [f \in ScoreFields |-> clamp_score(parse_score(text, f))],
     reasoning |-> [f \in ScoreFields |-> parse_reasoning(text, f)]]

\* lines 409-419: the dictionary returned when the judge call raised
fallback_metrics ==
    [score |-> [f \in ScoreFields |-> default_score],
     reasoning |-> [f \in ScoreFields |-> Fallback]]

\* no dictionary yet
NoMetrics ==
    [score |-> [f \in ScoreFields |-> 0],
     reasoning |-> [f \in ScoreFields |-> <<>>]]

\* how the call ends when llm_interface.generate raises: the `except Exception`
\* of line 409 returns the fallback dictionary
JudgeError == [outcome |-> "returned", metrics |-> fallback_metrics]

\* Evaluator.evaluate_response, lines 314-419
evaluate_response ==
    /\ eval_outcome = "none"
    /\ IF judge_fails
       THEN /\ eval_outcome' = JudgeError.outcome
            /\ metrics' = JudgeError.metrics
       ELSE /\ eval_outcome' = "returned"
            /\ metrics' = parse_metrics(judge_text)
    /\ UNCHANGED <<judge_text, judge_fails>>

\* the evaluator, as the other specifications leave it
EvalIdle ==
    /\ judge_text = <<>>
    /\ judge_fails = FALSE
    /\ metrics = NoMetrics
    /\ eval_outcome = "none"

----------------------------------------------------------------------------
\* evaluator.py: Evaluator.get_question_type

QuestionTypes == {"identity", "technical", "relationship", "philosophical"}

\* the order of the four keyword tests, lines 51-77
category_order == <<"identity", "technical", "relationship", "philosophical">>

\* a lowercase text, by what the function looks at: the categories one of whose
\* keywords occurs in it, and its entry in specific_questions ("none" without)
Text(kws, known) == [kws |-> kws, known |-> known]

\* the seven questions of specific_questions, lines 80-88, with the keywords
\* they contain
specific_questions ==
    {Text({}, "identity"),
     Text({"technical"}, "identity"),
     Text({"technical", "relationship"}, "relationship"),
     Text({"technical"}, "relationship"),
     Text({"technical", "relationship", "philosophical"}, "relationship"),
     Text({"relationship"}, "relationship")}

\* the lowercase texts: the seven, and for each set of categories a text that
\* is none of them
LowerTexts ==
    specific_questions \cup {Text(kws, "none") : kws \in SUBSET QuestionTypes}

\* a question: its lowercase text, and whether it is written with capitals
Question(text, cased) == [text |-> text, cased |-> cased]

\* question.lower(), line 48
lower(q) == Question(q.text, FALSE)

\* `keyword in s` for a keyword of the category: the keywords are lowercase
\* and occur in a text written without capitals only
contains_keyword(q, category) == ~q.cased /\ category \in q.text.kws

\* `s in specific_questions`, line 90: the keys are lowercase
in_specific_questions(q) == ~q.cased /\ q.text.known # "none"

\* headings_map: None, or a dictionary from questions to types
NoMap == [given |-> FALSE, map |-> <<>>]

HeadingsMaps(q) ==
    {NoMap} \cup {[given |-> TRUE, map |-> m] :
                     m \in UNION {[keys -> QuestionTypes] :
                                     keys \in SUBSET {q, lower(q)}}}

\* `headings_map and question in headings_map`, line 44: None and the empty
\* dictionary are both false
in_headings_map(q, hm) ==
    hm.given /\ DOMAIN hm.map # {} /\ q \in DOMAIN hm.map

RECURSIVE first_keyword_match(_, _)
\* lines 51-77: the first category of the order with a keyword in the text, ""
\* when no keyword occurs
first_keyword_match(q, i) ==
    IF i > Len(category_order) THEN ""
    ELSE IF contains_keyword(q, category_order[i]) THEN category_order[i]
    ELSE first_keyword_match(q, i + 1)

\* a classification that consults the table of known questions before the
\* keywords
get_question_type_table_first(q, hm) ==
    IF in_headings_map(q, hm) THEN hm.map[q]
    ELSE IF in_specific_questions(lower(q)) THEN lower(q).text.known
    ELSE IF first_keyword_match(lower(q), 1) # "" THEN first_keyword_match(lower(q), 1)
    ELSE "identity"

\* Evaluator.get_question_type, lines 32-94
get_question_type(q, hm) ==
    IF in_headings_map(q, hm) THEN hm.map[q]
    ELSE LET question_lower == lower(q)
         IN IF first_keyword_match(question_lower, 1) # ""
            THEN first_keyword_match(question_lower, 1)
            ELSE IF in_specific_questions(question_lower)
            THEN question_lower.text.known
            ELSE "identity"

\* one call of get_question_type
classify_question ==
    /\ question_type = "none"
    /\ question_type' = get_question_type(question, headings_map)
    /\ UNCHANGED <<question, headings_map>>

\* the classification, as the other specifications leave it
ClassifyIdle ==
    /\ question = Question(Text({}, "none"), FALSE)
    /\ headings_map = NoMap
    /\ question_type = "none"

----------------------------------------------------------------------------
\* response_classifier.py: ResponseClassifier and train_model

\* significand bits of torch.float32, the dtype of the features (line 126) and
\* so of every tensor the model computes
float32_precision == 24

\* float32 values are written as whole multiples of 2^-25, the spacing of float32
\* in [0.25, 0.5): every multiple up to 0.5 is a float32, above it every second
\* one (up to 1.0), then every fourth (up to 2.0)
FloatOne == 2 ^ (float32_precision + 1)

FloatHalf == FloatOne \div 2

\* the float32 next above 0.5
FloatHalfUp == FloatHalf + 2

RECURSIVE float32_spacing(_)
float32_spacing(n) ==
    IF n < 2 ^ float32_precision THEN 1 ELSE 2 * float32_spacing(n \div 2)

\* IEEE round-to-nearest, ties to the even significand
float32_round(n) ==
    LET s == float32_spacing(n)
        low == (n \div s) * s
        rest == n - low
    IN  IF 2 * rest < s THEN low
        ELSE IF 2 * rest > s THEN low + s
        ELSE IF (low \div s) % 2 = 0 THEN low ELSE low + s

\* the prompt and response pairs: how many of the sixteen character terms the
\* lowercased text holds, and whether the text has upper-case letters
PromptResponses == [terms : 0..1, cased : BOOLEAN]

NoPromptResponse == [terms |-> 0 - 1, cased |-> FALSE]

\* _prepare_features counts terms in the lowercased text and words: texts that
\* differ in case only give the same tensor
prepare_features(pr) == pr.terms

\* the two sigmoid outputs (character_score, quality_score) as float32:
\* sigmoid gives values of [0, 1], both ends included once it saturates
ScorePairs ==
    { <<0, FloatOne>>, <<FloatHalf, FloatHalfUp>>, <<FloatHalf, FloatHalf>> }

\* the weights of ResponseQualityModel, given as the function forward computes
\* with them: the module holds linear layers, relu and sigmoid only, nothing that
\* depends on model.training or on a random draw
WeightTables == [0..1 -> ScorePairs]

forward(model_weights, features) == model_weights[features]

\* (character_score + quality_score) / 2 on float32 tensors: the sum is rounded
\* to float32, the halving is exact. The result is in multiples of 2^-26
mean_score_not_halved(character_score, quality_score) ==
    2 * float32_round(character_score + quality_score)

mean_score(character_score, quality_score) ==
    float32_round(character_score + quality_score)

\* float(tensor) is exact; the three Python floats in multiples of 2^-26
NoScores == [character_accuracy |-> 0 - 1, response_quality |-> 0 - 1,
             overall_score |-> 0 - 1]

score_dict(pair) ==
    [character_accuracy |-> 2 * pair[1],
     response_quality |-> 2 * pair[2],
     overall_score |-> mean_score(pair[1], pair[2])]

optimizer_step_weights(model_weights, features) ==
    [model_weights EXCEPT ![features] =
        IF @ = <<FloatHalf, FloatHalf>> THEN <<0, FloatOne>>
        ELSE <<FloatHalf, FloatHalf>>]

\* with torch.no_grad(): the forward pass of evaluate_response leaves the
\* parameters as they are
no_grad_weights(model_weights, features) == model_weights

ClfOp(op, pr, result, before, after, mode) ==
    [op |-> op, input |-> pr, scores |-> result, before |-> before,
     after |-> after, training |-> mode]

\* ResponseClassifier.__init__ and _initialize_model: ResponseQualityModel() is a
\* fresh nn.Module with random weights, in training mode as every nn.Module is;
\* a readable checkpoint replaces the weights, a missing or unreadable one
\* leaves them; neither load_state_dict nor .to(device) touches model.training
ResponseClassifier_init ==
    /\ ~clf_built
    /\ \E file \in {"missing", "corrupt", "loaded"},
          fresh \in WeightTables, stored \in WeightTables :
          /\ checkpoint' = file
          /\ clf_weights' = IF file = "loaded" THEN stored ELSE fresh
    /\ clf_training' = TRUE
    /\ clf_built' = TRUE
    /\ UNCHANGED clf_ops

\* ResponseClassifier.evaluate_response
classifier_evaluate_response ==
    /\ clf_built
    /\ Len(clf_ops) < MaxOps
    /\ \E pr \in PromptResponses :
          LET features == prepare_features(pr)
              after == no_grad_weights(clf_weights, features)
          IN  /\ clf_training' = FALSE
              /\ clf_weights' = after
              /\ clf_ops' = Append(clf_ops,
                     ClfOp("evaluate", pr,
                           score_dict(forward(clf_weights, features)),
                           clf_weights, after, clf_training))
    /\ UNCHANGED <<checkpoint, clf_built>>

\* train_model: model.train(), then the optimizer moves the weights; with no
\* training data the weights stay and the progress line of epoch 0 divides by
\* zero. The model is left in training mode either way
train_model ==
    /\ clf_built
    /\ Len(clf_ops) < MaxOps
    /\ \E empty \in BOOLEAN, trained \in WeightTables :
          LET after == IF empty THEN clf_weights ELSE trained
          IN  /\ clf_weights' = after
              /\ clf_ops' = Append(clf_ops,
                     ClfOp(IF empty THEN "train_raised" ELSE "train",
                           NoPromptResponse, NoScores, clf_weights, after,
                           clf_training))
    /\ clf_training' = TRUE
    /\ UNCHANGED <<checkpoint, clf_built>>

\* no classifier, as the other specifications leave it
ClassifierIdle ==
    /\ checkpoint = "missing"
    /\ clf_built = FALSE
    /\ clf_training = TRUE
    /\ clf_weights = [f \in 0..1 |-> <<FloatHalf, FloatHalf>>]
    /\ clf_ops = <<>>

----------------------------------------------------------------------------
\* generate_classifier_data.py: generate_negative_examples

\* len(training_data) below which no negative example is generated
min_training_examples == 5

\* the counts asked for
Counts == {0, 1, 2}

\* scores in hundredths; random.uniform(0.1, 0.4) gives a value of [0.1, 0.4]
NegativeScores == {10, 40}

Elements(list) == {list[i] : i \in 1..Len(list)}

Example(p, r, cs, qs) ==
    [prompt |-> p, response |-> r, character_score |-> cs, quality_score |-> qs]

\* n distinct positive examples, each with its own prompt and response
TrainingData(n) == [i \in 1..n |-> Example(i, i, 90, 90)]

\* the lists the loop can build: per round two random.choice draws and two
\* random.uniform draws
mixed_examples(data, n) ==
    [1..n -> {Example(e1.prompt, e2.response, cs, qs) :
                 e1 \in Elements(data), e2 \in Elements(data),
                 cs \in NegativeScores, qs \in NegativeScores}]

negative_examples_of(data, n) ==
    IF Len(data) < min_training_examples THEN {<<>>}
    ELSE mixed_examples(data, n)

generate_negative_examples ==
    /\ ~neg_called
    /\ negative_examples' \in negative_examples_of(training_data, count)
    /\ neg_called' = TRUE
    /\ UNCHANGED <<training_data, count>>

\* no call, as the other specifications leave it
NegativeIdle ==
    /\ training_data = <<>>
    /\ count = 0
    /\ negative_examples = <<>>
    /\ neg_called = FALSE

----------------------------------------------------------------------------
\* indexer.py: split_text_into_chunks on the characters of a text

\* a character that is no white space, and the newline
Chars == {"a", "nl"}

RECURSIVE split_blank_lines(_, _)
\* text.split('\n\n'), line 32: the pieces, cut at each pair of newlines from
\* the left
split_blank_lines(text, piece) ==
    IF text = <<>> THEN <<piece>>
    ELSE IF Len(text) >= 2 /\ text[1] = "nl" /\ text[2] = "nl"
    THEN <<piece>> \o split_blank_lines(Tail(Tail(text)), <<>>)
    ELSE split_blank_lines(Tail(text), Append(piece, Head(text)))

RECURSIVE strip_text(_)
\* str.strip(): without the white space at both ends
strip_text(text) ==
    IF text = <<>> THEN <<>>
    ELSE IF Head(text) = "nl" THEN strip_text(Tail(text))
    ELSE IF text[Len(text)] = "nl" THEN strip_text(SubSeq(text, 1, Len(text) - 1))
    ELSE text

\* current_chunk[-overlap:] for overlap > 0, line 41
overlap_tail(text, lap) ==
    IF lap >= Len(text) THEN text ELSE SubSeq(text, Len(text) - lap + 1, Len(text))

RECURSIVE split_scan(_, _, _, _, _)
\* the loop of lines 37-52 and the last chunk
split_scan(paragraphs, current_chunk, chunks, size, lap) ==
    IF paragraphs = <<>>
    THEN IF current_chunk # <<>> THEN Append(chunks, strip_text(current_chunk))
         ELSE chunks
    ELSE LET paragraph == Head(paragraphs)
             full == /\ Len(current_chunk) + Len(paragraph) > size
                     /\ current_chunk # <<>>
             kept == IF ~full THEN current_chunk
                     ELSE IF lap > 0 THEN overlap_tail(current_chunk, lap)
                     ELSE <<>>
             grown == IF kept # <<>> THEN kept \o <<"nl", "nl">> \o paragraph
                      ELSE paragraph
         IN  split_scan(Tail(paragraphs), grown,
                        IF full THEN Append(chunks, strip_text(current_chunk))
                        ELSE chunks,
                        size, lap)

\* split_text_into_chunks(text, chunk_size, overlap), lines 17-54
text_chunks(text, size, lap) ==
    IF text = <<>> THEN <<>>
    ELSE split_scan(split_blank_lines(text, <<>>), <<>>, <<>>, size, lap)

split_text_call ==
    /\ ~split_done
    /\ split_chunks' = text_chunks(split_text, split_size, split_overlap)
    /\ split_done' = TRUE
    /\ UNCHANGED <<split_text, split_size, split_overlap>>

\* no call, as the other specifications leave it
SplitIdle ==
    /\ split_text = <<>>
    /\ split_size = 3
    /\ split_overlap = 0
    /\ split_chunks = <<>>
    /\ split_done = FALSE

----------------------------------------------------------------------------
\* api.py: the /chat endpoint and the module's Config object

\* a field the request leaves null
Null == 0 - 1

\* ChatRequest.temperature (tenths) and ChatRequest.max_tokens: null, the
\* field's default or another value
RequestTemperatures == {Null, 7, 2}

RequestMaxTokens == {Null, 500, 100}

RequestUseBrain == {"null", "true", "false"}

Settings(t, m, b) == [temperature |-> t, max_tokens |-> m, use_brain |-> b]

\* lines 92-99: the settings generate_response runs under
overrides(original, rt, rm, rb) ==
    Settings(IF rt # Null THEN rt ELSE original.temperature,
             IF rm # Null THEN rm ELSE original.max_tokens,
             IF rb # "null" THEN rb = "true" ELSE original.use_brain)

\* lines 101-107 and 118-120: the restore follows the generate_response call
\* inside the try block; an exception skips it and is answered with status 500
settings_after(original, overridden, raised) ==
    IF raised THEN overridden ELSE original

\* chat, lines 80-120; generate_response returns or raises
chat_endpoint ==
    /\ chat_count < MaxRequests
    /\ \E rt \in RequestTemperatures, rm \in RequestMaxTokens,
          rb \in RequestUseBrain, raised \in BOOLEAN :
          LET original == Settings(config_temperature, config_max_tokens, use_brain)
              left == settings_after(original, overrides(original, rt, rm, rb),
                                     raised)
          IN  /\ config_temperature' = left.temperature
              /\ config_max_tokens' = left.max_tokens
              /\ use_brain' = left.use_brain
              /\ chat_before' = original
              /\ chat_status' = IF raised THEN 500 ELSE 200
    /\ chat_count' = chat_count + 1

\* the configuration api.py builds without environment variables (lines 53-65),
\* and no request
ApiIdle ==
    /\ config_temperature = 7
    /\ config_max_tokens = 500
    /\ use_brain = TRUE
    /\ chat_before = Settings(7, 500, TRUE)
    /\ chat_status = 0
    /\ chat_count = 0

\* the groups added to the auxiliary ones, as the other specifications leave them
LateIdle ==
    /\ ClassifierIdle
    /\ NegativeIdle
    /\ SplitIdle
    /\ ApiIdle

\* the store, as the specifications that never use it leave it
StoreIdle ==
    /\ use_faiss = FALSE
    /\ model_loaded = FALSE
    /\ documents = <<>>
    /\ metadata = <<>>
    /\ vectors = <<>>
    /\ added = 0
    /\ last_add = "none"
    /\ last_search = NoSearch

\* the folder and the load, as Spec and SpecStore leave them
PersistIdle ==
    /\ saved = NoFiles
    /\ loaded = NotLoaded

\* everything but the controller and the store, as Spec and SpecStore leave it
AuxIdle ==
    /\ PersistIdle
    /\ IndexIdle
    /\ EvalIdle
    /\ ClassifyIdle
    /\ LateIdle

\* the controller's variables, as SpecStore leaves them
ControllerIdle ==
    /\ use_response_classifier = FALSE
    /\ response_classifier = FALSE
    /\ vector_store = "present"
    /\ session_id = FALSE
    /\ is_connected = FALSE
    /\ llm_history = <<>>
    /\ pc = "idle"
    /\ turns = 0
    /\ user_input = <<>>
    /\ brain_analysis = "none"
    /\ depth = 0
    /\ processed_input = <<>>
    /\ context = <<>>
    /\ prompt = <<>>
    /\ history = <<>>
    /\ aliased = FALSE
    /\ attempts = 0
    /\ response = <<>>
    /\ calls = <<>>
    /\ scores = <<>>
    /\ requests = <<>>
    /\ retrieval = "none"
    /\ feedback = "none"
    /\ forwarded = <<>>
    /\ outcome = "none"
    /\ error = "none"
    /\ returned = <<>>

\* the state after VectorStore.__init__ (lines 135-166): the FAISS backend when
\* both libraries import, else the brute-force store, without an embedding model
\* when sentence-transformers is missing
InitStore ==
    /\ use_faiss \in BOOLEAN
    /\ model_loaded \in (IF use_faiss THEN {TRUE} ELSE BOOLEAN)
    /\ documents = <<>>
    /\ metadata = <<>>
    /\ vectors = <<>>
    /\ added = 0
    /\ last_add = "none"
    /\ last_search = NoSearch
    /\ ControllerIdle
    /\ AuxIdle

NextStore ==
    \/ (add_texts /\ UNCHANGED <<ctlVars, auxVars>>)
    \/ (add_documents_direct /\ UNCHANGED <<ctlVars, auxVars>>)
    \/ (similarity_search_with_score /\ UNCHANGED <<ctlVars, auxVars>>)

SpecStore == InitStore /\ [][NextStore]_vars

NextPersist ==
    \/ (add_texts /\ Building /\ UNCHANGED <<ctlVars, auxVars>>)
    \/ (save_local /\ UNCHANGED <<ctlVars, indexVars, evalVars, classifyVars, lateVars>>)
    \/ (corrupt_files /\ UNCHANGED <<ctlVars, indexVars, evalVars, classifyVars, lateVars>>)
    \/ (load_local /\ UNCHANGED <<ctlVars, indexVars, evalVars, classifyVars, lateVars>>)

SpecPersist == InitStore /\ [][NextPersist]_vars

\* a knowledge file of at least one line (text.split gives at least one)
InitIndex ==
    /\ md_lines \in UNION {[1..n -> Lines] : n \in 1..MaxLines}
    /\ source \in Sources
    /\ sections = <<>>
    /\ emitted = <<>>
    /\ indexed = FALSE
    /\ use_faiss = FALSE
    /\ model_loaded = FALSE
    /\ documents = <<>>
    /\ metadata = <<>>
    /\ vectors = <<>>
    /\ added = 0
    /\ last_add = "none"
    /\ last_search = NoSearch
    /\ ControllerIdle
    /\ PersistIdle
    /\ EvalIdle
    /\ ClassifyIdle
    /\ LateIdle

NextIndex ==
    process_character_data
        /\ UNCHANGED <<ctlVars, storeVars, persistVars, evalVars, classifyVars, lateVars>>

SpecIndex == InitIndex /\ [][NextIndex]_vars

\* a judge text, or a judge call that raises
InitEval ==
    /\ judge_fails \in BOOLEAN
    /\ judge_text \in (IF judge_fails THEN {<<>>}
                       ELSE UNION {[1..n -> Tokens] : n \in 0..MaxTokens})
    /\ metrics = NoMetrics
    /\ eval_outcome = "none"
    /\ use_faiss = FALSE
    /\ model_loaded = FALSE
    /\ documents = <<>>
    /\ metadata = <<>>
    /\ vectors = <<>>
    /\ added = 0
    /\ last_add = "none"
    /\ last_search = NoSearch
    /\ ControllerIdle
    /\ PersistIdle
    /\ IndexIdle
    /\ ClassifyIdle
    /\ LateIdle

NextEval ==
    evaluate_response
        /\ UNCHANGED <<ctlVars, storeVars, persistVars, indexVars, classifyVars, lateVars>>

SpecEval == InitEval /\ [][NextEval]_vars

\* a question and a headings map
InitClassify ==
    /\ question \in {Question(t, c) : t \in LowerTexts, c \in BOOLEAN}
    /\ headings_map \in HeadingsMaps(question)
    /\ question_type = "none"
    /\ use_faiss = FALSE
    /\ model_loaded = FALSE
    /\ documents = <<>>
    /\ metadata = <<>>
    /\ vectors = <<>>
    /\ added = 0
    /\ last_add = "none"
    /\ last_search = NoSearch
    /\ ControllerIdle
    /\ PersistIdle
    /\ IndexIdle
    /\ EvalIdle
    /\ LateIdle

NextClassify ==
    classify_question
        /\ UNCHANGED <<ctlVars, storeVars, persistVars, indexVars, evalVars, lateVars>>

SpecClassify == InitClassify /\ [][NextClassify]_vars

earlyVars == <<ctlVars, storeVars, persistVars, indexVars, evalVars, classifyVars>>

\* everything but the late groups, as their specifications leave it
EarlyIdle ==
    /\ ControllerIdle
    /\ StoreIdle
    /\ PersistIdle
    /\ IndexIdle
    /\ EvalIdle
    /\ ClassifyIdle

\* before a ResponseClassifier is constructed
InitClassifier ==
    /\ ClassifierIdle
    /\ EarlyIdle
    /\ NegativeIdle
    /\ SplitIdle
    /\ ApiIdle

NextClassifier ==
    \/ (ResponseClassifier_init /\ UNCHANGED <<earlyVars, negativeVars, splitVars, apiVars>>)
    \/ (classifier_evaluate_response /\ UNCHANGED <<earlyVars, negativeVars, splitVars, apiVars>>)
    \/ (train_model /\ UNCHANGED <<earlyVars, negativeVars, splitVars, apiVars>>)

SpecClassifier == InitClassifier /\ [][NextClassifier]_vars

\* a non-empty list of training examples and a count
InitNegative ==
    /\ training_data \in {TrainingData(n) : n \in 1..MaxExamples}
    /\ count \in Counts
    /\ negative_examples = <<>>
    /\ neg_called = FALSE
    /\ EarlyIdle
    /\ ClassifierIdle
    /\ SplitIdle
    /\ ApiIdle

NextNegative ==
    generate_negative_examples /\ UNCHANGED <<earlyVars, classifierVars, splitVars, apiVars>>

SpecNegative == InitNegative /\ [][NextNegative]_vars

\* a text, a chunk size and an overlap smaller than it
InitSplit ==
    /\ split_text \in UNION {[1..n -> Chars] : n \in 0..MaxChars}
    /\ split_size \in {2, 3}
    /\ split_overlap \in 0..(split_size - 1)
    /\ split_chunks = <<>>
    /\ split_done = FALSE
    /\ EarlyIdle
    /\ ClassifierIdle
    /\ NegativeIdle
    /\ ApiIdle

NextSplit ==
    split_text_call /\ UNCHANGED <<earlyVars, classifierVars, negativeVars, apiVars>>

SpecSplit == InitSplit /\ [][NextSplit]_vars

\* the configuration read from the environment, and no request
InitApi ==
    /\ config_temperature \in {7, 2}
    /\ config_max_tokens \in {500, 100}
    /\ use_brain \in BOOLEAN
    /\ chat_before = Settings(config_temperature, config_max_tokens, use_brain)
    /\ chat_status = 0
    /\ chat_count = 0
    /\ EarlyIdle
    /\ ClassifierIdle
    /\ NegativeIdle
    /\ SplitIdle

NextApi ==
    chat_endpoint /\ UNCHANGED <<earlyVars, classifierVars, negativeVars, splitVars>>

SpecApi == InitApi /\ [][NextApi]_vars

----------------------------------------------------------------------------
\* ViktorAI.generate_response, step by step

\* what a turn observes, as it is when generate_response is entered
TurnReset ==
    /\ brain_analysis' = "none"
    /\ depth' = 0
    /\ processed_input' = <<>>
    /\ context' = <<>>
    /\ prompt' = <<>>
    /\ history' = <<>>
    /\ aliased' = FALSE
    /\ attempts' = 0
    /\ response' = NoResponse
    /\ calls' = <<>>
    /\ scores' = <<>>
    /\ requests' = <<>>
    /\ retrieval' = "none"
    /\ feedback' = "none"
    /\ forwarded' = <<>>
    /\ outcome' = "none"
    /\ error' = "none"
    /\ returned' = NoResponse

\* main.py line 167 / api.py line 102: a caller enters generate_response
StartTurn ==
    /\ pc = "idle"
    /\ turns < MaxTurns
    /\ user_input' = UserInput(turns + 1)
    /\ turns' = turns + 1
    /\ pc' = "brain_gate"
    /\ TurnReset
    /\ UNCHANGED <<use_response_classifier, response_classifier, vector_store,
                   session_id, is_connected, llm_history>>

\* _process_through_brain, lines 107-111, with BrainClient.check_connection
\* (lines 285-302)
process_through_brain ==
    /\ pc = "brain_gate"
    /\ IF is_connected
       THEN /\ pc' = "process_input"
            /\ UNCHANGED <<is_connected, requests, processed_input>>
       ELSE \E ok \in BOOLEAN :
            /\ requests' = Append(requests, "check")
            /\ is_connected' = ok
            /\ IF ok
               THEN pc' = "process_input" /\ UNCHANGED processed_input
               ELSE pc' = "retrieve" /\ processed_input' = user_input
    /\ UNCHANGED <<use_response_classifier, response_classifier, vector_store,
                   session_id, llm_history, turns, user_input, brain_analysis,
                   depth, context, prompt, history, aliased, attempts,
                   response, calls, scores, retrieval, feedback, forwarded, outcome,
                   error, returned>>

\* BrainClient.process_input, lines 118-122, with BrainClient.initialize
\* (lines 64-99) when there is no session
process_input_session ==
    /\ pc = "process_input"
    /\ IF session_id
       THEN /\ pc' = "process_post"
            /\ UNCHANGED <<session_id, is_connected, requests, brain_analysis>>
       ELSE \E ok \in BOOLEAN :
            /\ requests' = Append(requests, "initialize")
            /\ IF ok
               THEN /\ session_id' = TRUE
                    /\ is_connected' = TRUE
                    /\ pc' = "process_post"
                    /\ UNCHANGED brain_analysis
               ELSE /\ brain_analysis' = "default"
                    /\ pc' = "brain_format"
                    /\ UNCHANGED <<session_id, is_connected>>
    /\ UNCHANGED <<use_response_classifier, response_classifier, vector_store,
                   llm_history, turns, user_input, depth, processed_input,
                   context, prompt, history, aliased, attempts, response,
                   calls, scores, retrieval, feedback, forwarded, outcome, error,
                   returned>>

\* the answers of POST /process/{session_id}: 200 with a full analysis, 200 with
\* an analysis that lacks a numeric key, 200 with no analysis, 404, another
\* status, a request exception
ProcessAnswers == {"full", "partial", "none", "404", "500", "exception"}

\* BrainClient.process_input, lines 124-153: the request and what follows it
process_input_post ==
    /\ pc = "process_post"
    /\ \E answer \in ProcessAnswers :
       /\ IF answer \in {"full", "partial", "none"}
          THEN /\ requests' = Append(requests, "process")
               /\ brain_analysis' = answer
               /\ pc' = "brain_format"
               /\ UNCHANGED <<session_id, is_connected, depth>>
          ELSE IF answer = "404"
          THEN \E ok \in BOOLEAN :
               /\ requests' = requests \o <<"process", "initialize">>
               /\ IF ok
                  THEN /\ session_id' = TRUE
                       /\ is_connected' = TRUE
                       /\ IF depth < MaxDepth
                          THEN /\ depth' = depth + 1
                               /\ pc' = "process_input"
                               /\ UNCHANGED brain_analysis
                          ELSE \* RecursionError, caught at line 151
                               /\ brain_analysis' = "default"
                               /\ pc' = "brain_format"
                               /\ UNCHANGED depth
                  ELSE /\ brain_analysis' = "default"
                       /\ pc' = "brain_format"
                       /\ UNCHANGED <<session_id, is_connected, depth>>
          ELSE /\ requests' = Append(requests, "process")
               /\ brain_analysis' = "default"
               /\ pc' = "brain_format"
               /\ UNCHANGED <<session_id, is_connected, depth>>
    /\ UNCHANGED <<use_response_classifier, response_classifier, vector_store,
                   llm_history, turns, user_input, processed_input, context,
                   prompt, history, aliased, attempts, response, calls, scores,
                   retrieval, feedback, forwarded, outcome, error, returned>>

\* _process_through_brain, lines 120-141
brain_format ==
    /\ pc = "brain_format"
    /\ processed_input' = format_brain_input(user_input, brain_analysis)
    /\ pc' = "retrieve"
    /\ UNCHANGED <<use_response_classifier, response_classifier, vector_store,
                   session_id, is_connected, llm_history, turns, user_input,
                   brain_analysis, depth, context, prompt, history, aliased,
                   attempts, response, calls, scores, requests, retrieval,
                   feedback, forwarded, outcome, error, returned>>

\* generate_response, lines 174-186: _retrieve_context, _prepare_rag_prompt,
\* llm.get_history() (which hands out the list object itself) and the loop's
\* variables
retrieve ==
    /\ pc = "retrieve"
    /\ \E answer \in QueryAnswers :
       /\ context' = retrieve_context(vector_store, answer)
       /\ retrieval' = retrieval_kind(vector_store, answer)
       /\ prompt' = prepare_rag_prompt(processed_input,
                                       retrieve_context(vector_store, answer))
    /\ history' = llm_history
    /\ aliased' = get_history_aliases
    /\ response' = NoResponse
    /\ attempts' = 0
    /\ pc' = "generate"
    /\ UNCHANGED <<use_response_classifier, response_classifier, vector_store,
                   session_id, is_connected, llm_history, turns, user_input,
                   brain_analysis, depth, processed_input, calls, scores,
                   requests, feedback, forwarded, outcome, error, returned>>

\* the answers of the generation backend: a reply, a request error
\* (RequestException, HTTP error status), or a 200 body without the reply key
BackendAnswers(n, k) ==
    {[kind |-> "reply", text |-> Reply(n, k)],
     [kind |-> "error", text |-> NoResponse],
     [kind |-> "malformed", text |-> NoResponse]}

\* OllamaInterface.generate, lines 51-72: llm.history after the call
generate_history(h, p, answer) ==
    IF answer.kind = "reply"
    THEN h \o <<Msg("user", p), Msg("assistant", answer.text)>>
    ELSE IF answer.kind = "malformed"
    THEN \* line 66 has run when line 67 raises KeyError
         h \o <<Msg("user", p)>>
    ELSE h

\* OllamaInterface.generate_with_chat_history, lines 102-123: llm.history after
\* the call
chat_history(h, messages, answer) ==
    IF answer.kind = "reply"
    THEN messages \o <<Msg("assistant", answer.text)>>
    ELSE IF answer.kind = "malformed"
    THEN \* line 117 has run when line 118 raises KeyError
         messages
    ELSE h

\* generate_response, lines 188-206: one generation call and the gate test
generate ==
    /\ pc = "generate"
    /\ \E answer \in BackendAnswers(turns, Len(calls) + 1) :
       LET chat == UseChat(history)
           messages == history \o <<Msg("user", prompt)>>
           after == IF chat THEN chat_history(llm_history, messages, answer)
                    ELSE generate_history(llm_history, prompt, answer)
           ends == IF answer.kind = "reply"
                   THEN [pc |-> IF GatingDisabled THEN "feedback" ELSE "score",
                         outcome |-> "none", error |-> "none"]
                   ELSE GenerationError
       IN /\ llm_history' = after
          \* generate appends to the list object in place; the chat entry point
          \* binds llm.history to a new list
          /\ aliased' = (aliased /\ (~chat \/ answer.kind = "error"))
          /\ history' = IF aliased /\ ~chat THEN after ELSE history
          /\ response' = IF answer.kind = "reply"
                         THEN NextResponse(response, answer.text)
                         ELSE response
          /\ calls' = Append(calls,
                 [entry |-> IF chat THEN "chat" ELSE "generate",
                  stored |-> llm_history,
                  sent |-> IF chat THEN messages ELSE <<Msg("user", prompt)>>,
                  ok |-> answer.kind = "reply",
                  reply |-> answer.text,
                  after |-> after])
          /\ pc' = ends.pc
          /\ outcome' = ends.outcome
          /\ error' = ends.error
    /\ UNCHANGED <<use_response_classifier, response_classifier, vector_store,
                   session_id, is_connected, turns, user_input, brain_analysis,
                   depth, processed_input, context, prompt, attempts, scores,
                   requests, retrieval, feedback, forwarded, returned>>

\* what the scorer may do: return an overall_score, or raise
ScorerAnswers ==
    {[raised |-> FALSE, score |-> v] : v \in ScoreValues}
        \cup {[raised |-> TRUE, score |-> 0]}

\* generate_response, lines 208-231: score the response, accept or retry
score ==
    /\ pc = "score"
    /\ \E answer \in ScorerAnswers :
       /\ scores' = Append(scores, answer)
       /\ IF answer.raised
          THEN /\ pc' = ScorerError.pc
               /\ outcome' = ScorerError.outcome
               /\ error' = ScorerError.error
               /\ UNCHANGED attempts
          ELSE IF Accepts(answer.score)
          THEN /\ pc' = "feedback"
               /\ UNCHANGED <<attempts, outcome, error>>
          ELSE /\ attempts' = attempts + 1
               /\ pc' = AfterReject(attempts + 1)
               /\ UNCHANGED <<outcome, error>>
    /\ UNCHANGED <<use_response_classifier, response_classifier, vector_store,
                   session_id, is_connected, llm_history, turns, user_input,
                   brain_analysis, depth, processed_input, context, prompt,
                   history, aliased, response, calls, requests, retrieval,
                   feedback, forwarded, returned>>

\* the answers of POST /feedback/{session_id}
FeedbackAnswers == {"200", "500", "exception"}

\* generate_response, lines 233-237: _process_response_feedback (lines 143-160)
\* with BrainClient.check_connection and BrainClient.process_feedback
\* (lines 155-188), then `return response`
process_response_feedback ==
    /\ pc = "feedback"
    /\ \E reachable \in BOOLEAN, answer \in FeedbackAnswers :
       LET checks == ~is_connected
           goes == is_connected \/ reachable
           posts == goes /\ session_id
           ends == IF posts THEN FeedbackError(answer)
                   ELSE [outcome |-> "returned", error |-> "none"]
       IN /\ is_connected' = IF checks THEN reachable ELSE is_connected
          /\ requests' = requests
                           \o (IF checks THEN <<"check">> ELSE <<>>)
                           \o (IF posts THEN <<"feedback">> ELSE <<>>)
          /\ forwarded' = IF posts THEN <<response>> ELSE <<>>
          /\ feedback' = IF ~goes THEN "unreachable"
                         ELSE IF ~session_id THEN "no_session"
                         ELSE answer
          /\ outcome' = ends.outcome
          /\ error' = ends.error
          /\ returned' = IF ends.outcome = "returned" THEN response
                         ELSE NoResponse
    /\ pc' = "idle"
    /\ UNCHANGED <<use_response_classifier, response_classifier, vector_store,
                   session_id, llm_history, turns, user_input, brain_analysis,
                   depth, processed_input, context, prompt, history, aliased,
                   attempts, response, calls, scores, retrieval>>

----------------------------------------------------------------------------
\* Spec: the controller

\* the state after ViktorAI.__init__ (lines 23-65): BrainClient.__init__ has
\* tried to initialize a session, the vector store was loaded or not, the
\* classifier was constructed only if the configuration asks for it, and its
\* construction may have failed
Init ==
    /\ use_response_classifier \in BOOLEAN
    /\ response_classifier \in (IF use_response_classifier THEN BOOLEAN ELSE {FALSE})
    /\ vector_store \in {"absent", "present"}
    /\ session_id \in BOOLEAN
    /\ is_connected = session_id
    /\ llm_history = <<>>
    /\ pc = "idle"
    /\ turns = 0
    /\ user_input = <<>>
    /\ brain_analysis = "none"
    /\ depth = 0
    /\ processed_input = <<>>
    /\ context = <<>>
    /\ prompt = <<>>
    /\ history = <<>>
    /\ aliased = FALSE
    /\ attempts = 0
    /\ response = NoResponse
    /\ calls = <<>>
    /\ scores = <<>>
    /\ requests = <<>>
    /\ retrieval = "none"
    /\ feedback = "none"
    /\ forwarded = <<>>
    /\ outcome = "none"
    /\ error = "none"
    /\ returned = NoResponse
    /\ use_faiss = FALSE
    /\ model_loaded = FALSE
    /\ documents = <<>>
    /\ metadata = <<>>
    /\ vectors = <<>>
    /\ added = 0
    /\ last_add = "none"
    /\ last_search = NoSearch
    /\ PersistIdle
    /\ IndexIdle
    /\ EvalIdle
    /\ ClassifyIdle
    /\ ClassifierIdle
    /\ NegativeIdle
    /\ SplitIdle
    \* config.use_brain: true by default, false under --no-brain (main.py line
    \* 122) or USE_BRAIN=false (api.py line 63); ViktorAI never reads it
    /\ use_brain \in BOOLEAN
    /\ config_temperature = 7
    /\ config_max_tokens = 500
    /\ chat_before = Settings(7, 500, use_brain)
    /\ chat_status = 0
    /\ chat_count = 0

Next ==
    \/ (StartTurn /\ UNCHANGED <<storeVars, auxVars>>)
    \/ (process_through_brain /\ UNCHANGED <<storeVars, auxVars>>)
    \/ (process_input_session /\ UNCHANGED <<storeVars, auxVars>>)
    \/ (process_input_post /\ UNCHANGED <<storeVars, auxVars>>)
    \/ (brain_format /\ UNCHANGED <<storeVars, auxVars>>)
    \/ (retrieve /\ UNCHANGED <<storeVars, auxVars>>)
    \/ (generate /\ UNCHANGED <<storeVars, auxVars>>)
    \/ (score /\ UNCHANGED <<storeVars, auxVars>>)
    \/ (process_response_feedback /\ UNCHANGED <<storeVars, auxVars>>)

Spec == Init /\ [][Next]_vars

----------------------------------------------------------------------------
\* Properties of the controller (checked under Spec)

\* quality gating is enabled: the configuration asks for it and a classifier
\* was constructed
QualityGating == use_response_classifier /\ response_classifier

\* the scorer returned, and below the threshold, on every attempt so far
AllBelow ==
    \A i \in DOMAIN scores :
        ~scores[i].raised /\ scores[i].score < min_response_score

C2_UngatedSingleCall ==
    ~QualityGating
        => /\ scores = <<>>
           /\ Len(calls) <= 1
           /\ (outcome # "none" => Len(calls) = 1)
           /\ (outcome = "returned" => returned = calls[1].reply)

C2_Witness ==
    /\ use_response_classifier
    /\ ~response_classifier
    /\ outcome = "returned"
    /\ Len(calls) = 1

C4_GenerationErrorPropagates ==
    \A i \in DOMAIN calls :
        ~calls[i].ok
            => /\ i = Len(calls)
               /\ pc = "idle"
               /\ outcome = "raised"
               /\ error = "generation"
               /\ returned = NoResponse
               /\ feedback = "none"
               /\ forwarded = <<>>

C4_Witness ==
    /\ Len(calls) = 2
    /\ ~calls[2].ok
    /\ calls[1].ok

\* C5: an exception of the scorer never reaches the caller of
\* generate_response; only generation failures do.
C5_OnlyGenerationErrorsSurface ==
    outcome = "raised" => error = "generation"

\* C6: with the vector store absent or its query raising, _retrieve_context
\* gives the empty context, the prompt is exactly the (brain-processed) input,
\* nothing is raised by the retrieval and the turn goes on to the generation
\* call.
C6_RetrievalDegrades ==
    retrieval \in {"absent", "raised"}
        => /\ context = <<>>
           /\ prompt = processed_input
           /\ pc \in {"generate", "score", "feedback", "idle"}
           /\ (pc # "generate" => Len(calls) >= 1)
           /\ error \in {"none", "generation", "scorer"}

C6_Witness ==
    /\ retrieval = "raised"
    /\ brain_analysis = "full"
    /\ Len(calls) >= 1

\* C7: the response is posted to the brain as feedback at most once per turn,
\* the body posted is the response returned, and however the forwarding ends
\* (accepted, refused, request exception, skipped with the brain unreachable or
\* without a session) generate_response returns the response the loop ended
\* with and raises nothing.
C7_FeedbackBestEffort ==
    /\ Len(forwarded) <= 1
    /\ Cardinality({i \in DOMAIN requests : requests[i] = "feedback"})
          = Len(forwarded)
    /\ feedback # "none"
          => /\ pc = "idle"
             /\ outcome = "returned"
             /\ error = "none"
             /\ calls # <<>>
             /\ returned = calls[Len(calls)].reply
             /\ \A i \in DOMAIN forwarded : forwarded[i] = returned

C7_Witness ==
    /\ feedback = "exception"
    /\ outcome = "returned"
    /\ Len(forwarded) = 1

\* C8: every generation attempt goes through the chat entry point if and only
\* if llm.history is non-empty when the attempt is made, and after a chat call
\* that succeeds llm.history is the message list sent followed by one assistant
\* message holding the reply.
C8_ChatIffHistory ==
    /\ \A i \in DOMAIN calls :
          /\ (calls[i].entry = "chat") <=> (calls[i].stored # <<>>)
          /\ (calls[i].entry = "chat" /\ calls[i].ok)
                => calls[i].after
                     = calls[i].sent \o <<Msg("assistant", calls[i].reply)>>
    /\ (calls # <<>> /\ pc # "idle") => llm_history = calls[Len(calls)].after

C8_Witness ==
    /\ Len(calls) = 2
    /\ calls[1].entry = "chat"
    /\ calls[2].entry = "chat"
    /\ calls[2].ok
    /\ calls[2].after # calls[2].stored \o calls[2].sent

----------------------------------------------------------------------------
\* Properties of the vector store (checked under SpecStore)

\* C9: after any sequence of add calls, those that raise and those given a
\* metadata list of another length than the texts included, the documents, the
\* metadata entries and the embedding rows are equally many, as many as the
\* documents given to the add calls that returned.
C9_ThreeWayAlignment ==
    /\ Len(documents) = Len(metadata)
    /\ Len(documents) = Len(vectors)
    /\ Len(documents) = added

\* C10: a search returns at most k results, and on an empty store it returns
\* the empty list without raising.
C10_AtMostK ==
    last_search.done
        => /\ Len(last_search.results) <= last_search.k
           /\ (last_search.size = 0
                 => ~last_search.raised /\ last_search.results = <<>>)

\* the scores of a result list do not increase along it
Descending(results) ==
    \A i, j \in DOMAIN results :
        i < j => /\ results[i].score.lowest => results[j].score.lowest
                 /\ (~results[i].score.lowest /\ ~results[j].score.lowest)
                       => results[i].score.dot >= results[j].score.dot

\* C11: the results of a search that returns are in descending order of score,
\* and when k is at least the number of stored documents the result holds every
\* stored document exactly once, on both backends.
C11_SortedWholeCorpus ==
    (last_search.done /\ ~last_search.raised /\ model_loaded)
        => /\ Descending(last_search.results)
           /\ (last_search.k >= last_search.size
                 => /\ Len(last_search.results) = last_search.size
                    /\ \A p \in 1..last_search.size :
                          \E i \in DOMAIN last_search.results :
                              last_search.results[i].pos = p)

\* C12: in a brute-force search two results of equal score come in the order
\* their documents were inserted.
C12_TiesByInsertion ==
    (last_search.done /\ ~last_search.raised /\ ~use_faiss)
        => \A i, j \in DOMAIN last_search.results :
              (i < j /\ last_search.results[i].score = last_search.results[j].score)
                  => last_search.results[i].pos < last_search.results[j].pos

\* C13: on the same corpus, query and k the two backends answer alike: what a
\* search returned (documents, order, scores) is what the other backend may
\* return for it, and neither raises where the other returns.
C13_BackendsEquivalent ==
    (last_search.done /\ model_loaded /\ Len(metadata) = Len(documents))
        => LET q == encode(last_search.query)
               end == [raised |-> last_search.raised,
                       results |-> last_search.results]
           IN end \in (IF use_faiss THEN simple_store_search(q, last_search.k)
                       ELSE faiss_search(q, last_search.k))

----------------------------------------------------------------------------
\* Properties of the persisted store (checked under SpecPersist)

\* C14: a store loaded from the folder it was saved to is equivalent to it: the
\* same backend, documents, metadata and embedding rows in the same order, the
\* same embedding dimension and the same matrix shape.
C14_SaveLoadRoundTrip ==
    (loaded.status = "returned" /\ loaded.source = save_local_writes(NoFiles))
        => /\ loaded.use_faiss = use_faiss
           /\ loaded.documents = documents
           /\ loaded.metadata = metadata
           /\ loaded.vectors = vectors
           /\ loaded.embedding_dimension = embedding_dimension
           /\ loaded.shape = vectors_shape

\* C15: a load never returns a store whose documents, metadata entries and
\* embedding rows are not equally many.
C15_LoadVerifiesAlignment ==
    loaded.status = "returned"
        => /\ Len(loaded.documents) = Len(loaded.metadata)
           /\ Len(loaded.documents) = Len(loaded.vectors)

----------------------------------------------------------------------------
\* Properties of the indexer (checked under SpecIndex)

\* C16: no section returned by extract_sections_from_markdown has an empty
\* content string.
C16_NoEmptySection ==
    indexed => \A i \in DOMAIN sections : joined_length(sections[i].content) > 0

\* C17: a section longer than 1000 characters is emitted as two documents or
\* more, tagged part = 1..n in order with total_parts = n, and a section of at
\* most 1000 characters as exactly one document.
C17_LongSectionsChunked ==
    indexed
        => \A i \in DOMAIN sections :
              IF joined_length(sections[i].content) > chunk_threshold
              THEN /\ Len(emitted[i]) >= 2
                   /\ \A j \in DOMAIN emitted[i] :
                         emitted[i][j] = Doc(j, Len(emitted[i]))
              ELSE Len(emitted[i]) = 1

----------------------------------------------------------------------------
\* Properties of the rubric evaluator (checked under SpecEval)

\* position j holds the number that follows the label at position i, line
\* breaks apart
NumberFollows(text, i, j) ==
    /\ i < j
    /\ j <= Len(text)
    /\ is_number(text[j])
    /\ \A k \in (i + 1)..(j - 1) : text[k] = "nl"

\* positions i and j are the leftmost label of the field followed by a number
LeftmostScore(text, field, i, j) ==
    /\ text[i] = score_label(field)
    /\ NumberFollows(text, i, j)
    /\ \A i2 \in 1..(i - 1), j2 \in DOMAIN text :
          ~(text[i2] = score_label(field) /\ NumberFollows(text, i2, j2))

\* the field's label stands in the text followed by a number
ScorePresent(text, field) ==
    \E i, j \in DOMAIN text : LeftmostScore(text, field, i, j)

C19_ReasoningNonEmpty ==
    eval_outcome = "returned"
        => \A f \in ScoreFields : metrics.reasoning[f] # <<>>

----------------------------------------------------------------------------
\* Properties of the question classification (checked under SpecClassify)

\* the place of a category in the order identity, technical, relationship,
\* philosophical
Rank(category) ==
    CHOOSE i \in 1..4 :
        <<"identity", "technical", "relationship", "philosophical">>[i] = category

\* C20: the type returned is the headings map's entry when the question is a
\* key of the map; else the first category, in the order identity, technical,
\* relationship, philosophical, with a keyword in the lowercased question; else
\* the lowercased question's entry in the table of known questions; else
\* identity.
C20_Precedence ==
    question_type # "none"
        => LET kws == question.text.kws
               known == question.text.known
               mapped == headings_map.given /\ question \in DOMAIN headings_map.map
           IN /\ mapped => question_type = headings_map.map[question]
              /\ (~mapped /\ kws # {})
                    => /\ question_type \in kws
                       /\ \A c \in kws : Rank(question_type) <= Rank(c)
              /\ (~mapped /\ kws = {} /\ known # "none") => question_type = known
              /\ (~mapped /\ kws = {} /\ known = "none") => question_type = "identity"

\* a known question written with capitals, a key of no map, whose table entry
\* is not the category of its keywords
C20_Witness ==
    /\ question_type = "technical"
    /\ question.cased
    /\ question.text = Text({"technical", "relationship"}, "relationship")
    /\ headings_map.given
    /\ DOMAIN headings_map.map = {lower(question)}

----------------------------------------------------------------------------
\* Properties of the response classifier (checked under SpecClassifier)

Evaluations == {i \in 1..Len(clf_ops) : clf_ops[i].op = "evaluate"}

\* the three scores lie in [0, 1] (1.0 is 2 * FloatOne multiples of 2^-26)
ScoresInRange(d) ==
    /\ d.character_accuracy \in 0..(2 * FloatOne)
    /\ d.response_quality \in 0..(2 * FloatOne)
    /\ d.overall_score \in 0..(2 * FloatOne)

\* C21 as stated: every evaluate_response call returns three scores of [0, 1]
\* with overall_score equal to (character_accuracy + response_quality) / 2
C21_MeanExactly ==
    \A i \in Evaluations :
        LET d == clf_ops[i].scores
        IN  /\ ScoresInRange(d)
            /\ 2 * d.overall_score = d.character_accuracy + d.response_quality

\* C21 amended: every evaluate_response call returns three scores of [0, 1],
\* and overall_score is the mean of the other two rounded to float32: it is
\* within 2^-25 (two multiples of 2^-26) of
\* (character_accuracy + response_quality) / 2
C21_MeanRounded ==
    \A i \in Evaluations :
        LET d == clf_ops[i].scores
            twice_off == 2 * d.overall_score
                           - (d.character_accuracy + d.response_quality)
        IN  /\ ScoresInRange(d)
            /\ twice_off \in (0 - 4)..4

\* a call that returned 0.5 and the next float32 above 0.5, and 0.5 as their mean
C21_Witness ==
    \E i \in Evaluations :
        /\ clf_ops[i].scores.character_accuracy = 2 * FloatHalf
        /\ clf_ops[i].scores.response_quality = 2 * FloatHalfUp
        /\ clf_ops[i].scores.overall_score = FloatOne

\* C22: two evaluate_response calls with the same prompt and response and no
\* train_model call between them return identical scores, whatever preceded
\* them, and no evaluate_response call changes the weights
C22_Deterministic ==
    /\ \A i \in Evaluations : clf_ops[i].after = clf_ops[i].before
    /\ \A i, j \in Evaluations :
          (/\ i < j
           /\ clf_ops[i].input = clf_ops[j].input
           /\ \A m \in (i + 1)..(j - 1) : clf_ops[m].op = "evaluate")
              => clf_ops[j].scores = clf_ops[i].scores

\* train_model left the model in training mode, then the same prompt and
\* response were evaluated twice
C22_Witness ==
    /\ Len(clf_ops) = 3
    /\ clf_ops[1].op = "train"
    /\ clf_ops[2].op = "evaluate"
    /\ clf_ops[2].training
    /\ clf_ops[3].op = "evaluate"
    /\ clf_ops[3].input = clf_ops[2].input
    /\ clf_ops[3].scores = clf_ops[2].scores

\* C23 as stated: right after construction, before any other call, the model
\* is in evaluation mode
C23_EvalModeAfterInit ==
    (clf_built /\ clf_ops = <<>>) => ~clf_training

----------------------------------------------------------------------------
\* Properties of generate_negative_examples (checked under SpecNegative)

\* C24 as stated: for any non-empty training_data the call returns exactly
\* count examples, each with a prompt and a response of training_data and both
\* scores below 0.5
C24_ExactlyCount ==
    neg_called =>
        /\ Len(negative_examples) = count
        /\ \A i \in 1..Len(negative_examples) :
              /\ \E e \in Elements(training_data) :
                    negative_examples[i].prompt = e.prompt
              /\ \E e \in Elements(training_data) :
                    negative_examples[i].response = e.response
              /\ negative_examples[i].character_score < 50
              /\ negative_examples[i].quality_score < 50

----------------------------------------------------------------------------
\* Properties of split_text_into_chunks (checked under SpecSplit)

\* C25 as stated: every chunk returned has at most chunk_size characters
C25_ChunkWithinSize ==
    split_done =>
        \A i \in 1..Len(split_chunks) : Len(split_chunks[i]) <= split_size

----------------------------------------------------------------------------
\* Properties of the /chat endpoint (checked under SpecApi)

\* C26 as stated: after every /chat request, answered with a response or with
\* an error, temperature, max_tokens and use_brain of the shared config are
\* what they were before the request
C26_OverridesTemporary ==
    chat_count > 0 =>
        Settings(config_temperature, config_max_tokens, use_brain) = chat_before

----------------------------------------------------------------------------
\* Properties of the brain integration (checked under Spec)

\* C27 as stated: when BrainClient.process_input failed (no session and a
\* failed initialization, a non-200 answer, a failed re-initialization after a
\* 404, a request exception), _process_through_brain passes the user input on
\* unchanged, with no brain-state block
C27_FailurePassesInputUnchanged ==
    (brain_analysis = "default" /\ pc # "brain_format")
        => processed_input = user_input

\* C28 as stated: with config.use_brain false, generate_response sends no
\* request to the brain API
C28_DisabledBrainNoRequests ==
    ~use_brain => requests = <<>>

\* C29 as stated: when generate_response has returned, llm.history is the
\* history of before the turn followed by one user turn holding the composed
\* prompt and one assistant turn holding the returned response
C29_HistoryGrowsByOneExchange ==
    outcome = "returned"
        => llm_history = calls[1].stored
                           \o <<Msg("user", prompt), Msg("assistant", returned)>>

\* the POST /process requests of the turn, and the POST /initialize requests
\* that follow one (the re-initializations after a 404)
ProcessRequests == {i \in 1..Len(requests) : requests[i] = "process"}

Reinitializations ==
    {i \in 2..Len(requests) :
        requests[i] = "initialize" /\ requests[i - 1] = "process"}

\* C30 as stated: one call of process_input performs at most one
\* re-initialization and at most two process requests, whatever the server
\* answers
C30_BoundedRequests ==
    /\ Cardinality(Reinitializations) <= 1
    /\ Cardinality(ProcessRequests) <= 2


====
